---- MODULE Spec2Model ----
(***************************************************************************)
(* Monitor-Manager: the display session controller of main.py (the tray    *)
(* variant: a QThread worker plus the GUI thread's stop()) and of          *)
(* monitor_manager.py (the console variant: one thread, KeyboardInterrupt  *)
(* as the shutdown path), together with the part of the OS they drive:     *)
(* the display devices, their attached / primary flags and modes, and the  *)
(* result of every ChangeDisplaySettingsEx call.                           *)
(***************************************************************************)
EXTENDS Integers, Sequences, FiniteSets, TLC

VARIABLES
    variant,              \* "tray" (main.py) or "console" (monitor_manager.py)
    \* ---- the OS display subsystem
    attached,             \* [Displays -> BOOLEAN]: DISPLAY_DEVICE_ATTACHED_TO_DESKTOP
    primary,              \* the device that carries DISPLAY_DEVICE_PRIMARY_DEVICE
    osmode,               \* [Displays -> DEVMODE]: the current mode of each device
    envEvents,            \* number of display events caused from outside the program
    \* ---- program state
    monitor_settings,     \* the snapshot store: a function from names to DEVMODEs
    target_exe_path,      \* MonitorThread.target_exe_path
    running,              \* MonitorThread.running
    process_was_running,  \* process_was_running / lol_was_running
    monitors_disabled,    \* monitors_disabled
    pc,                   \* position of the polling worker (console: the main thread)
    process_is_running,   \* the local of run(): this cycle's sample
    processes,            \* the 'exe' values process_iter has yielded in this sample
    pi,                   \* number of processes is_target_running's for-loop has seen
    secondary_monitors,   \* the list the passes iterate (names, in list order)
    idx,                  \* position of the running for-loop in secondary_monitors
    stopPc,               \* position of the GUI thread in exit_app() / stop()
    stopList,             \* stop()'s local secondary_monitors
    stopIdx,              \* position of stop()'s for-loop
    \* ---- history (written, never read, by the program's actions)
    lastCall,             \* the mode-change call made by the latest step, or NoCall
    lastWrite,            \* the snapshot entries written by the latest step
    prevSample,           \* the sample of the previous polling cycle
    lastPass,             \* the latest pass of an earlier cycle: "none", "disable", "restore"
    cyclePass,            \* the pass this polling cycle ran: "none", "disable", "restore"
    enumFailed,           \* the pass of this cycle got no monitor at all from the OS
    passCalls,            \* [Displays -> Nat]: mode-change calls per display in this pass
    status_log,           \* the status events of this polling cycle, in order
    disableIssued,        \* disable called, no successful restore since
    pendingOff,           \* disable succeeded, no restore call since
    stopSecondaries,      \* DisabledSecondaries when shutdown was requested in Disabled
    stopCalls,            \* the displays the shutdown path called restore on
    targetsRead,          \* the values of target_exe_path the running sample has read
    targetEverSet         \* target_exe_path has held a path at some time

vars == <<variant, attached, primary, osmode, envEvents, monitor_settings,
          target_exe_path, running, process_was_running, monitors_disabled, pc,
          process_is_running, processes, pi, secondary_monitors, idx, stopPc, stopList,
          stopIdx, lastCall, lastWrite, prevSample, lastPass, cyclePass, enumFailed, passCalls,
          status_log, disableIssued, pendingOff, stopSecondaries, stopCalls,
          targetsRead, targetEverSet>>

osVars    == <<attached, primary, osmode>>
stopVars  == <<stopPc, stopList, stopIdx>>
flagVars  == <<process_was_running, monitors_disabled>>
pollVars  == <<processes, pi, targetsRead>>

-----------------------------------------------------------------------------
(* Bounds of the model *)

NDisplays == 3
NModes == 2
MaxEnvEvents == 1
MaxQueryFailures == 1
MaxProcs == 2

Displays == 1..NDisplays      \* a display's number is its device index

-----------------------------------------------------------------------------
(* Program constants *)

CDS_UPDATEREGISTRY == 1
DISP_CHANGE_SUCCESSFUL == 0
DM_PELSWIDTH == 524288
DM_PELSHEIGHT == 1048576
DM_DISPLAYORIENTATION == 128
DM_POSITION == 32
CHANGE_FLAGS == 0

\* The DEVMODE that disable_monitor builds: only dmFields, dmPelsWidth and
\* dmPelsHeight are set, every other field stays zero.
DisableDevmode ==
    [dmFields |-> DM_PELSWIDTH + DM_PELSHEIGHT + DM_POSITION,
     dmPelsWidth |-> 0, dmPelsHeight |-> 0]

\* The modes EnumDisplaySettings reports for a device that is on.
Modes ==
    {[dmFields |-> DM_PELSWIDTH + DM_PELSHEIGHT + DM_POSITION + DM_DISPLAYORIENTATION,
      dmPelsWidth |-> w, dmPelsHeight |-> 1] : w \in 1..NModes}

NoCall == [op |-> "none"]

\* The result codes ChangeDisplaySettingsEx may return: success, or a failure code.
OsResultCodes == {DISP_CHANGE_SUCCESSFUL, -1}

-----------------------------------------------------------------------------
(* Executable paths: strings over a two-letter alphabet in both cases *)

Chars == {"a", "A", "b", "B"}

LowerChar(c) == IF c = "A" THEN "a" ELSE IF c = "B" THEN "b" ELSE c

\* str.lower()
Lower(s) == [i \in DOMAIN s |-> LowerChar(s[i])]

\* The 'exe' values of the processes; the empty string stands for '' and for
\* None (both falsy).
ProcPaths == {<<>>, <<"a">>, <<"b">>}

\* The values of the configured target path: unset, or a path.
TargetPaths == {<<>>, <<"A">>}

\* The literal of is_lol_running.
LolPath == <<"a">>

\* A comparison that forgets str.lower() on the side of the target path.
PathMatchesCaseSensitive(exe, target) == exe # <<>> /\ Lower(exe) = target

\* proc.info['exe'] and proc.info['exe'].lower() == self.target_exe_path.lower()
PathMatches(exe, target) == exe # <<>> /\ Lower(exe) = Lower(target)

\* A guard that answers "running" when no target is configured.
UnsetTargetSampleTrue == TRUE

\* if not self.target_exe_path: return False
UnsetTargetSample == FALSE

\* is_lol_running over one snapshot of the process table (procs: the set of
\* the 'exe' values of the processes; <<>> for a process whose path is None or
\* cannot be read).
is_lol_running(procs) ==
    \E exe \in procs : exe # <<>> /\ Lower(exe) = Lower(LolPath)

-----------------------------------------------------------------------------
(* Display enumeration and the snapshot store *)

\* An enumeration that gives up at the first device whose mode query fails.
RECURSIVE EnumFromAbort(_, _)
EnumFromAbort(i, qfail) ==
    IF i > NDisplays THEN <<>>
    ELSE IF attached[i] /\ i \in qfail THEN <<>>
    ELSE (IF attached[i]
          THEN <<[index |-> i, name |-> i, settings |-> osmode[i],
                  is_primary |-> (i = primary)]>>
          ELSE <<>>) \o EnumFromAbort(i + 1, qfail)

\* get_all_monitors: the devices from index i on that are attached to the desktop
\* and whose EnumDisplaySettings call succeeds (qfail: the devices for which the
\* OS fails that call), in device-index order.
RECURSIVE EnumFrom(_, _)
EnumFrom(i, qfail) ==
    IF i > NDisplays THEN <<>>
    ELSE (IF attached[i] /\ i \notin qfail
          THEN <<[index |-> i, name |-> i, settings |-> osmode[i],
                  is_primary |-> (i = primary)]>>
          ELSE <<>>) \o EnumFrom(i + 1, qfail)

get_all_monitors(qfail) == EnumFrom(1, qfail)

\* The sets of devices whose mode query the OS may fail during one enumeration.
QueryFailures == {q \in SUBSET Displays : Cardinality(q) <= MaxQueryFailures}

\* [m for m in monitors if not m['is_primary']], kept as the list of names: the
\* passes read only m['name'] (and m['description'], which names the same device).
IsSecondary(m) == ~m.is_primary

SecondaryNames(monitors) ==
    LET sec == SelectSeq(monitors, IsSecondary)
    IN  [i \in DOMAIN sec |-> sec[i].name]

Names(monitors) == {monitors[i].name : i \in DOMAIN monitors}

SettingsOf(monitors, n) ==
    LET i == CHOOSE j \in DOMAIN monitors : monitors[j].name = n
    IN  monitors[i].settings

\* save_monitor_settings: monitor_settings[monitor['name']] = monitor['settings']
save_monitor_settings(monitors) ==
    [n \in (DOMAIN monitor_settings) \cup Names(monitors) |->
        IF n \in Names(monitors) THEN SettingsOf(monitors, n) ELSE monitor_settings[n]]

-----------------------------------------------------------------------------
(* The OS side of ChangeDisplaySettingsEx *)

\* A request for zero width and height switches the device off (it leaves the
\* desktop); any other accepted mode switches it on with that mode.
IsOffRequest(devmode) == devmode.dmPelsWidth = 0 /\ devmode.dmPelsHeight = 0

\* The OS never lets the primary device leave the desktop.
OsResults(d, devmode) ==
    IF IsOffRequest(devmode) /\ d = primary
    THEN OsResultCodes \ {DISP_CHANGE_SUCCESSFUL}
    ELSE OsResultCodes

OsApply(d, devmode, rc) ==
    IF rc = DISP_CHANGE_SUCCESSFUL
    THEN /\ attached' = [attached EXCEPT ![d] = ~IsOffRequest(devmode)]
         /\ osmode' = [osmode EXCEPT ![d] = devmode]
         /\ UNCHANGED primary
    ELSE UNCHANGED osVars

\* disable_monitor(name): one call, with the zero-size DEVMODE and dwflags 0.
DisableCallRecord(d, rc, by) ==
    [op |-> "disable", d |-> d, devmode |-> DisableDevmode, flags |-> CHANGE_FLAGS,
     rc |-> rc, by |-> by]

\* restore_monitor(name, settings): one call, with the stored DEVMODE, dwflags 0.
RestoreCallRecord(d, settings, rc, by) ==
    [op |-> "restore", d |-> d, devmode |-> settings, flags |-> CHANGE_FLAGS,
     rc |-> rc, by |-> by]

\* A restore that rebuilds the field mask instead of passing the stored one.
RestoreDevmodeRemasked(settings) ==
    [settings EXCEPT !.dmFields = DM_PELSWIDTH + DM_PELSHEIGHT + DM_POSITION]

\* restore_monitor passes ctypes.byref(settings): the stored structure itself.
RestoreDevmode(settings) == settings

Succeeded(rc) == rc = DISP_CHANGE_SUCCESSFUL

Event(cat, d) == [cat |-> cat, d |-> d]

-----------------------------------------------------------------------------
(* Initial state: the process has started, nothing has run yet *)

EmptyStore == [n \in {} |-> DisableDevmode]

\* The desktop as the program finds it: device 1 is the primary display, every
\* other device is on the desktop or not, and a device that is on shows the mode
\* InitialMode gives it (later events change the primary and the modes).
InitialMode(d) ==
    CHOOSE m \in Modes : m.dmPelsWidth = ((d - 1) % NModes) + 1

OsStates ==
    {st \in [attached : [Displays -> BOOLEAN], primary : {1},
             osmode : [Displays -> Modes \cup {DisableDevmode}]] :
        /\ st.attached[st.primary]
        /\ \A d \in Displays :
              st.osmode[d] = IF st.attached[d] THEN InitialMode(d) ELSE DisableDevmode}

Init ==
    /\ variant \in {"tray", "console"}
    /\ \E st \in OsStates :
          /\ attached = st.attached
          /\ primary = st.primary
          /\ osmode = st.osmode
    /\ envEvents = 0
    /\ monitor_settings = EmptyStore
    /\ target_exe_path \in (IF variant = "tray" THEN TargetPaths ELSE {LolPath})
    /\ running = TRUE
    /\ process_was_running = FALSE
    /\ monitors_disabled = FALSE
    /\ pc = "init"
    /\ process_is_running = FALSE
    /\ processes = {}
    /\ pi = 0
    /\ secondary_monitors = <<>>
    /\ idx = 1
    /\ stopPc = "idle"
    /\ stopList = <<>>
    /\ stopIdx = 1
    /\ lastCall = NoCall
    /\ lastWrite = {}
    /\ prevSample = FALSE
    /\ lastPass = "none"
    /\ cyclePass = "none"
    /\ enumFailed = FALSE
    /\ passCalls = [d \in Displays |-> 0]
    /\ status_log = <<>>
    /\ disableIssued = {}
    /\ pendingOff = {}
    /\ stopSecondaries = {}
    /\ stopCalls = {}
    /\ targetsRead = {}
    /\ targetEverSet = (target_exe_path # <<>>)

-----------------------------------------------------------------------------
(* History bookkeeping *)

NoCallStep == lastCall' = NoCall /\ lastWrite' = {}

histVars == <<prevSample, lastPass, cyclePass, enumFailed, passCalls, status_log, disableIssued,
              pendingOff, stopSecondaries, stopCalls>>

Emit(events) == status_log' = status_log \o events

\* The bookkeeping of one disable call on d with result rc.
NoteDisable(d, rc) ==
    /\ disableIssued' = disableIssued \cup {d}
    /\ pendingOff' = IF Succeeded(rc) THEN pendingOff \cup {d} ELSE pendingOff

\* The bookkeeping of one restore call on d with result rc.
NoteRestore(d, rc) ==
    /\ disableIssued' = IF Succeeded(rc) THEN disableIssued \ {d} ELSE disableIssued
    /\ pendingOff' = pendingOff \ {d}

\* The secondary displays the program has called disable on and has not
\* successfully restored since.
DisabledSecondaries == {d \in disableIssued : d # primary}

InPass == pc \in {"disabling", "disable_retry", "restoring", "restore_retry"}

\* MonitorSessionState, read off the flags and the worker's position.
SessionState ==
    IF pc \in {"disabling", "disable_retry"} THEN "Disabling"
    ELSE IF pc \in {"restoring", "restore_retry"} THEN "Restoring"
    ELSE IF monitors_disabled THEN "Disabled"
    ELSE "Idle"

-----------------------------------------------------------------------------
(* Display events from outside the program *)

OSAttach(d, m) ==
    /\ envEvents < MaxEnvEvents
    /\ ~attached[d]
    /\ attached' = [attached EXCEPT ![d] = TRUE]
    /\ osmode' = [osmode EXCEPT ![d] = m]
    /\ envEvents' = envEvents + 1
    /\ NoCallStep
    /\ UNCHANGED <<variant, targetEverSet, primary, monitor_settings, target_exe_path, running,
                   flagVars, pc, process_is_running, pollVars, secondary_monitors, idx,
                   stopVars, histVars>>

OSDetach(d) ==
    /\ envEvents < MaxEnvEvents
    /\ attached[d]
    /\ d # primary
    /\ attached' = [attached EXCEPT ![d] = FALSE]
    /\ osmode' = [osmode EXCEPT ![d] = DisableDevmode]
    /\ envEvents' = envEvents + 1
    /\ NoCallStep
    /\ UNCHANGED <<variant, targetEverSet, primary, monitor_settings, target_exe_path, running,
                   flagVars, pc, process_is_running, pollVars, secondary_monitors, idx,
                   stopVars, histVars>>

OSSetPrimary(d) ==
    /\ envEvents < MaxEnvEvents
    /\ attached[d]
    /\ d # primary
    /\ primary' = d
    /\ envEvents' = envEvents + 1
    /\ NoCallStep
    /\ UNCHANGED <<variant, targetEverSet, attached, osmode, monitor_settings, target_exe_path,
                   running, flagVars, pc, process_is_running, pollVars, secondary_monitors,
                   idx, stopVars, histVars>>

-----------------------------------------------------------------------------
(* The polling worker of the tray variant: SystemTrayApp.__init__ and      *)
(* MonitorThread.run                                                       *)

\* A loop that gives up at the first failed call (break instead of going on).
NextIndexBreak(i, rc) == IF Succeeded(rc) THEN i + 1 ELSE NDisplays + 1

\* The for-loops of the passes go on to the next monitor whatever the call returned.
NextIndex(i, rc) == i + 1

\* A disable pass that first refreshes the store from the monitors it enumerated.
StoreRecaptured(monitors) ==
    [store |-> save_monitor_settings(monitors), written |-> Names(monitors)]

\* What the start of a disable pass does to the snapshot store: nothing (the
\* pass enumerates the monitors and leaves monitor_settings alone).
StoreAtDisablePass(monitors) == [store |-> monitor_settings, written |-> {}]

\* A disable pass that forgets to record the sample it reacted to.
DisablePassFlagsStale ==
    [monitors_disabled |-> TRUE, process_was_running |-> process_was_running]

\* A disable pass that leaves the state alone when it had no monitor to disable.
DisablePassFlagsIfAny ==
    [monitors_disabled |-> monitors_disabled \/ Len(secondary_monitors) > 0,
     process_was_running |-> TRUE]

\* The flags as the end of a disable pass sets them.
DisablePassFlags == [monitors_disabled |-> TRUE, process_was_running |-> TRUE]

\* A restore pass that leaves the disabled flag as it is.
RestorePassFlagsKeepDisabled ==
    [monitors_disabled |-> monitors_disabled, process_was_running |-> FALSE]

\* A restore pass that forgets to record the sample it reacted to.
RestorePassFlagsStale ==
    [monitors_disabled |-> FALSE, process_was_running |-> process_was_running]

\* The flags as the end of a restore pass sets them.
RestorePassFlags == [monitors_disabled |-> FALSE, process_was_running |-> FALSE]

\* save_monitor_settings(), then MonitorThread(...) and start().
TrayStartup ==
    /\ variant = "tray"
    /\ pc = "init"
    /\ \E qfail \in QueryFailures :
          LET monitors == get_all_monitors(qfail)
          IN  /\ monitor_settings' = save_monitor_settings(monitors)
              /\ lastWrite' = Names(monitors)
    /\ lastCall' = NoCall
    /\ running' = TRUE
    /\ process_was_running' = FALSE
    /\ monitors_disabled' = FALSE
    /\ pc' = "loop"
    /\ UNCHANGED <<variant, targetEverSet, osVars, envEvents, target_exe_path, process_is_running, pollVars,
                   secondary_monitors, idx, stopVars, histVars>>

\* A loop that does not test the flag stop() clears.
LoopConditionAlways == TRUE

\* while self.running:
LoopCondition == running

\* while self.running: process_is_running = self.is_target_running(), up to the
\* guard of is_target_running and the call of psutil.process_iter.
TrayPoll ==
    /\ variant = "tray"
    /\ pc = "loop"
    /\ IF ~LoopCondition
       THEN /\ pc' = "done"
            /\ UNCHANGED <<process_is_running, pollVars>>
       ELSE /\ targetsRead' = {target_exe_path}
            /\ processes' = {}
            /\ pi' = 0
            /\ IF target_exe_path = <<>>
               THEN process_is_running' = UnsetTargetSample /\ pc' = "sampled"
               ELSE pc' = "polling" /\ UNCHANGED process_is_running
    /\ NoCallStep
    /\ UNCHANGED <<variant, targetEverSet, osVars, envEvents, monitor_settings,
                   target_exe_path, running, flagVars, secondary_monitors, idx,
                   stopVars, histVars>>

\* One iteration of is_target_running's for-loop: process_iter yields a process
\* and the comparison reads self.target_exe_path again (when the process has
\* an 'exe' value); a match returns True.
TrayCompare(exe) ==
    /\ variant = "tray"
    /\ pc = "polling"
    /\ pi < MaxProcs
    /\ processes' = processes \cup {exe}
    /\ targetsRead' = IF exe # <<>> THEN targetsRead \cup {target_exe_path}
                      ELSE targetsRead
    /\ IF PathMatches(exe, target_exe_path)
       THEN process_is_running' = TRUE /\ pc' = "sampled" /\ pi' = 0
       ELSE pi' = pi + 1 /\ UNCHANGED <<process_is_running, pc>>
    /\ NoCallStep
    /\ UNCHANGED <<variant, targetEverSet, osVars, envEvents, monitor_settings,
                   target_exe_path, running, flagVars, secondary_monitors, idx,
                   stopVars, histVars>>

\* process_iter is exhausted: return False.
TrayNoMatch ==
    /\ variant = "tray"
    /\ pc = "polling"
    /\ process_is_running' = FALSE
    /\ pc' = "sampled"
    /\ pi' = 0
    /\ NoCallStep
    /\ UNCHANGED <<variant, targetEverSet, osVars, envEvents, monitor_settings,
                   target_exe_path, running, flagVars, processes, targetsRead,
                   secondary_monitors, idx, stopVars, histVars>>

\* if process_is_running and not self.process_was_running: emit, enumerate.
TrayDisableBegin ==
    /\ variant = "tray"
    /\ pc = "sampled"
    /\ process_is_running /\ ~process_was_running
    /\ \E qfail \in QueryFailures :
          LET monitors == get_all_monitors(qfail)
          IN  /\ secondary_monitors' = SecondaryNames(monitors)
              /\ monitor_settings' = StoreAtDisablePass(monitors).store
              /\ lastWrite' = StoreAtDisablePass(monitors).written
              /\ enumFailed' = (Len(monitors) = 0)
    /\ idx' = 1
    /\ targetsRead' = {} /\ processes' = {}
    /\ pc' = "disabling"
    /\ cyclePass' = "disable"
    /\ Emit(<<Event("detected", 0)>>)
    /\ lastCall' = NoCall
    /\ UNCHANGED <<variant, targetEverSet, osVars, envEvents, target_exe_path, running, flagVars,
                   process_is_running, pi, stopVars, prevSample, lastPass, passCalls,
                   disableIssued, pendingOff, stopSecondaries, stopCalls>>

\* One iteration of "for monitor in secondary_monitors: if disable_monitor(...)".
TrayDisableCall ==
    /\ variant = "tray"
    /\ pc = "disabling"
    /\ idx <= Len(secondary_monitors)
    /\ LET d == secondary_monitors[idx]
       IN  \E rc \in OsResults(d, DisableDevmode) :
              /\ OsApply(d, DisableDevmode, rc)
              /\ lastCall' = DisableCallRecord(d, rc, "worker")
              /\ NoteDisable(d, rc)
              /\ passCalls' = [passCalls EXCEPT ![d] = @ + 1]
              /\ Emit(<<Event(IF Succeeded(rc) THEN "disabled" ELSE "failed", d)>>)
              /\ idx' = NextIndex(idx, rc)
    /\ lastWrite' = {}
    /\ UNCHANGED <<variant, targetEverSet, envEvents, monitor_settings, target_exe_path, running,
                   flagVars, pc, process_is_running, pollVars, secondary_monitors, stopVars,
                   prevSample, lastPass, cyclePass, enumFailed, stopSecondaries, stopCalls>>

\* self.monitors_disabled = True; self.process_was_running = True; emit.
DisableEnd ==
    /\ pc = "disabling"
    /\ idx > Len(secondary_monitors)
    /\ monitors_disabled' = DisablePassFlags.monitors_disabled
    /\ process_was_running' = DisablePassFlags.process_was_running
    /\ Emit(<<Event("active", 0)>>)
    /\ pc' = "sleep"
    /\ NoCallStep
    /\ UNCHANGED <<variant, targetEverSet, osVars, envEvents, monitor_settings, target_exe_path,
                   running, process_is_running, pollVars, secondary_monitors, idx, stopVars,
                   prevSample, lastPass, cyclePass, enumFailed, passCalls, disableIssued, pendingOff,
                   stopSecondaries, stopCalls>>

\* elif not process_is_running and self.process_was_running: emit, enumerate.
TrayRestoreBegin ==
    /\ variant = "tray"
    /\ pc = "sampled"
    /\ ~process_is_running /\ process_was_running
    /\ \E qfail \in QueryFailures :
          LET monitors == get_all_monitors(qfail)
          IN  /\ secondary_monitors' = SecondaryNames(monitors)
              /\ enumFailed' = (Len(monitors) = 0)
    /\ idx' = 1
    /\ targetsRead' = {} /\ processes' = {}
    /\ pc' = "restoring"
    /\ cyclePass' = "restore"
    /\ Emit(<<Event("closed", 0)>>)
    /\ NoCallStep
    /\ UNCHANGED <<variant, targetEverSet, osVars, envEvents, monitor_settings, target_exe_path,
                   running, flagVars, process_is_running, pi, stopVars, prevSample, lastPass,
                   passCalls, disableIssued, pendingOff, stopSecondaries, stopCalls>>

\* One iteration of the restore loop: a monitor with no snapshot entry is passed over.
TrayRestoreCall ==
    /\ variant = "tray"
    /\ pc = "restoring"
    /\ idx <= Len(secondary_monitors)
    /\ LET d == secondary_monitors[idx]
       IN  IF d \in DOMAIN monitor_settings
           THEN \E rc \in OsResults(d, RestoreDevmode(monitor_settings[d])) :
                   /\ OsApply(d, RestoreDevmode(monitor_settings[d]), rc)
                   /\ lastCall' =
                       RestoreCallRecord(d, RestoreDevmode(monitor_settings[d]), rc, "worker")
                   /\ NoteRestore(d, rc)
                   /\ passCalls' = [passCalls EXCEPT ![d] = @ + 1]
                   /\ Emit(<<Event(IF Succeeded(rc) THEN "restored" ELSE "failed", d)>>)
                   /\ idx' = NextIndex(idx, rc)
           ELSE /\ idx' = idx + 1
                /\ lastCall' = NoCall
                /\ UNCHANGED <<osVars, disableIssued, pendingOff, passCalls, status_log>>
    /\ lastWrite' = {}
    /\ UNCHANGED <<variant, targetEverSet, envEvents, monitor_settings, target_exe_path, running,
                   flagVars, pc, process_is_running, pollVars, secondary_monitors, stopVars,
                   prevSample, lastPass, cyclePass, enumFailed, stopSecondaries, stopCalls>>

\* self.monitors_disabled = False; self.process_was_running = False; emit.
RestoreEnd ==
    /\ pc = "restoring"
    /\ idx > Len(secondary_monitors)
    /\ monitors_disabled' = RestorePassFlags.monitors_disabled
    /\ process_was_running' = RestorePassFlags.process_was_running
    /\ Emit(<<Event("idle", 0)>>)
    /\ pc' = "sleep"
    /\ NoCallStep
    /\ UNCHANGED <<variant, targetEverSet, osVars, envEvents, monitor_settings, target_exe_path,
                   running, process_is_running, pollVars, secondary_monitors, idx, stopVars,
                   prevSample, lastPass, cyclePass, enumFailed, passCalls, disableIssued, pendingOff,
                   stopSecondaries, stopCalls>>

\* Neither branch: the sample equals the previous one.
NoEdge ==
    /\ pc = "sampled"
    /\ ~(process_is_running /\ ~process_was_running)
    /\ ~(~process_is_running /\ process_was_running)
    /\ targetsRead' = {} /\ processes' = {}
    /\ pc' = "sleep"
    /\ NoCallStep
    /\ UNCHANGED <<variant, targetEverSet, osVars, envEvents, monitor_settings, target_exe_path,
                   running, flagVars, process_is_running, pi, secondary_monitors, idx,
                   stopVars, histVars>>

\* time.sleep(2): the polling cycle is over, and its history with it.
Sleep ==
    /\ pc = "sleep"
    /\ pc' = "loop"
    /\ prevSample' = process_is_running
    /\ lastPass' = IF cyclePass # "none" THEN cyclePass ELSE lastPass
    /\ cyclePass' = "none"
    /\ enumFailed' = FALSE
    /\ passCalls' = [d \in Displays |-> 0]
    /\ status_log' = <<>>
    /\ NoCallStep
    /\ UNCHANGED <<variant, targetEverSet, osVars, envEvents, monitor_settings, target_exe_path,
                   running, flagVars, process_is_running, pollVars, secondary_monitors, idx,
                   stopVars, disableIssued, pendingOff, stopSecondaries, stopCalls>>

-----------------------------------------------------------------------------
(* The GUI thread of the tray variant: show_settings and exit_app / stop   *)

\* show_settings: self.monitor_thread.set_target_exe(path)
SetTargetExe(path) ==
    /\ variant = "tray"
    /\ pc # "init"
    /\ stopPc = "idle"
    /\ path # target_exe_path
    /\ target_exe_path' = path
    /\ targetEverSet' = (targetEverSet \/ path # <<>>)
    /\ NoCallStep
    /\ UNCHANGED <<variant, osVars, envEvents, monitor_settings, running, flagVars,
                   pc, process_is_running, pollVars, secondary_monitors, idx, stopVars,
                   histVars>>

\* A shutdown path that runs its restore loop whatever the flag says.
ShutdownRestoresAlways == TRUE

\* if self.monitors_disabled: (stop()) / if monitors_disabled: (the handler)
ShutdownRestores == monitors_disabled

\* stop(): self.running = False; if self.monitors_disabled:
StopRequest ==
    /\ variant = "tray"
    /\ pc # "init"
    /\ stopPc = "idle"
    /\ running' = FALSE
    /\ stopPc' = IF ShutdownRestores THEN "stop_enum" ELSE "joining"
    /\ stopSecondaries' = IF SessionState = "Disabled" THEN DisabledSecondaries ELSE {}
    /\ NoCallStep
    /\ UNCHANGED <<variant, targetEverSet, osVars, envEvents, monitor_settings, target_exe_path,
                   flagVars, pc, process_is_running, pollVars, secondary_monitors, idx,
                   stopList, stopIdx, prevSample, lastPass, cyclePass, enumFailed, passCalls, status_log,
                   disableIssued, pendingOff, stopCalls>>

\* stop(): monitors = get_all_monitors(); secondary_monitors = [...]
StopEnum ==
    /\ stopPc = "stop_enum"
    /\ \E qfail \in QueryFailures :
          stopList' = SecondaryNames(get_all_monitors(qfail))
    /\ stopIdx' = 1
    /\ stopPc' = "stop_restoring"
    /\ NoCallStep
    /\ UNCHANGED <<variant, targetEverSet, osVars, envEvents, monitor_settings, target_exe_path,
                   running, flagVars, pc, process_is_running, pollVars, secondary_monitors,
                   idx, histVars>>

\* stop(): one iteration of its restore loop; the result of the call is not read.
StopRestore ==
    /\ stopPc = "stop_restoring"
    /\ stopIdx <= Len(stopList)
    /\ LET d == stopList[stopIdx]
       IN  IF d \in DOMAIN monitor_settings
           THEN \E rc \in OsResults(d, RestoreDevmode(monitor_settings[d])) :
                   /\ OsApply(d, RestoreDevmode(monitor_settings[d]), rc)
                   /\ lastCall' =
                       RestoreCallRecord(d, RestoreDevmode(monitor_settings[d]), rc, "shutdown")
                   /\ NoteRestore(d, rc)
                   /\ stopCalls' = stopCalls \cup {d}
           ELSE /\ lastCall' = NoCall
                /\ UNCHANGED <<osVars, disableIssued, pendingOff, stopCalls>>
    /\ stopIdx' = stopIdx + 1
    /\ lastWrite' = {}
    /\ UNCHANGED <<variant, targetEverSet, envEvents, monitor_settings, target_exe_path, running,
                   flagVars, pc, process_is_running, pollVars, secondary_monitors, idx, stopPc,
                   stopList, prevSample, lastPass, cyclePass, enumFailed, passCalls, status_log,
                   stopSecondaries>>

\* stop() returns; exit_app goes on to self.monitor_thread.wait().
StopReturn ==
    /\ stopPc = "stop_restoring"
    /\ stopIdx > Len(stopList)
    /\ stopPc' = "joining"
    /\ NoCallStep
    /\ UNCHANGED <<variant, targetEverSet, osVars, envEvents, monitor_settings, target_exe_path,
                   running, flagVars, pc, process_is_running, pollVars, secondary_monitors,
                   idx, stopList, stopIdx, histVars>>

\* wait() returns once run() has returned; the application quits.
StopJoin ==
    /\ stopPc = "joining"
    /\ pc = "done"
    /\ stopPc' = "exited"
    /\ NoCallStep
    /\ UNCHANGED <<variant, targetEverSet, osVars, envEvents, monitor_settings, target_exe_path,
                   running, flagVars, pc, process_is_running, pollVars, secondary_monitors,
                   idx, stopList, stopIdx, histVars>>

-----------------------------------------------------------------------------
(* The console variant: main() of monitor_manager.py                       *)

\* save_monitor_settings()
ConsoleSave ==
    /\ variant = "console"
    /\ pc = "init"
    /\ \E qfail \in QueryFailures :
          LET monitors == get_all_monitors(qfail)
          IN  /\ monitor_settings' = save_monitor_settings(monitors)
              /\ lastWrite' = Names(monitors)
    /\ lastCall' = NoCall
    /\ pc' = "startup_enum"
    /\ UNCHANGED <<variant, targetEverSet, osVars, envEvents, target_exe_path, running, flagVars,
                   process_is_running, pollVars, secondary_monitors, idx, stopVars, histVars>>

\* monitors = get_all_monitors(); the loop that fills secondary_monitors; the flags.
ConsoleEnum ==
    /\ variant = "console"
    /\ pc = "startup_enum"
    /\ \E qfail \in QueryFailures :
          secondary_monitors' = SecondaryNames(get_all_monitors(qfail))
    /\ process_was_running' = FALSE
    /\ monitors_disabled' = FALSE
    /\ pc' = "loop"
    /\ NoCallStep
    /\ UNCHANGED <<variant, targetEverSet, osVars, envEvents, monitor_settings, target_exe_path,
                   running, process_is_running, pollVars, idx, stopVars, histVars>>

\* while True: lol_is_running = is_lol_running()
ConsolePoll ==
    /\ variant = "console"
    /\ pc = "loop"
    /\ \E procs \in SUBSET ProcPaths : process_is_running' = is_lol_running(procs)
    /\ pc' = "sampled"
    /\ NoCallStep
    /\ UNCHANGED <<variant, targetEverSet, osVars, envEvents, monitor_settings, target_exe_path,
                   running, flagVars, pollVars, secondary_monitors, idx, stopVars, histVars>>

\* if lol_is_running and not lol_was_running: the messages and the countdown.
ConsoleDisableBegin ==
    /\ variant = "console"
    /\ pc = "sampled"
    /\ process_is_running /\ ~process_was_running
    /\ idx' = 1
    /\ pc' = "disabling"
    /\ cyclePass' = "disable"
    /\ enumFailed' = FALSE
    /\ Emit(<<Event("detected", 0)>>)
    /\ NoCallStep
    /\ UNCHANGED <<variant, targetEverSet, osVars, envEvents, monitor_settings, target_exe_path,
                   running, flagVars, process_is_running, pollVars, secondary_monitors,
                   stopVars, prevSample, lastPass, passCalls, disableIssued, pendingOff,
                   stopSecondaries, stopCalls>>

\* One iteration of the disable loop up to its first call.
ConsoleDisableCall ==
    /\ variant = "console"
    /\ pc = "disabling"
    /\ idx <= Len(secondary_monitors)
    /\ LET d == secondary_monitors[idx]
       IN  \E rc \in OsResults(d, DisableDevmode) :
              /\ OsApply(d, DisableDevmode, rc)
              /\ lastCall' = DisableCallRecord(d, rc, "worker")
              /\ NoteDisable(d, rc)
              /\ passCalls' = [passCalls EXCEPT ![d] = @ + 1]
              /\ Emit(<<Event("attempt", d),
                        Event(IF Succeeded(rc) THEN "disabled" ELSE "failed", d)>>)
              /\ IF Succeeded(rc)
                 THEN idx' = NextIndex(idx, rc) /\ pc' = pc
                 ELSE idx' = idx /\ pc' = "disable_retry"
    /\ lastWrite' = {}
    /\ UNCHANGED <<variant, targetEverSet, envEvents, monitor_settings, target_exe_path, running,
                   flagVars, process_is_running, pollVars, secondary_monitors, stopVars,
                   prevSample, lastPass, cyclePass, enumFailed, stopSecondaries, stopCalls>>

\* time.sleep(0.5); if disable_monitor(monitor['name']): print("Retry successful")
ConsoleDisableRetry ==
    /\ variant = "console"
    /\ pc = "disable_retry"
    /\ LET d == secondary_monitors[idx]
       IN  \E rc \in OsResults(d, DisableDevmode) :
              /\ OsApply(d, DisableDevmode, rc)
              /\ lastCall' = DisableCallRecord(d, rc, "worker")
              /\ NoteDisable(d, rc)
              /\ passCalls' = [passCalls EXCEPT ![d] = @ + 1]
              /\ Emit(IF Succeeded(rc) THEN <<Event("disabled", d)>> ELSE <<>>)
              /\ idx' = NextIndex(idx, rc)
    /\ pc' = "disabling"
    /\ lastWrite' = {}
    /\ UNCHANGED <<variant, targetEverSet, envEvents, monitor_settings, target_exe_path, running,
                   flagVars, process_is_running, pollVars, secondary_monitors, stopVars,
                   prevSample, lastPass, cyclePass, enumFailed, stopSecondaries, stopCalls>>

\* elif not lol_is_running and lol_was_running: the message.
ConsoleRestoreBegin ==
    /\ variant = "console"
    /\ pc = "sampled"
    /\ ~process_is_running /\ process_was_running
    /\ idx' = 1
    /\ pc' = "restoring"
    /\ cyclePass' = "restore"
    /\ enumFailed' = FALSE
    /\ Emit(<<Event("closed", 0)>>)
    /\ NoCallStep
    /\ UNCHANGED <<variant, targetEverSet, osVars, envEvents, monitor_settings, target_exe_path,
                   running, flagVars, process_is_running, pollVars, secondary_monitors,
                   stopVars, prevSample, lastPass, passCalls, disableIssued, pendingOff,
                   stopSecondaries, stopCalls>>

\* One iteration of the restore loop up to its first call.
ConsoleRestoreCall ==
    /\ variant = "console"
    /\ pc = "restoring"
    /\ idx <= Len(secondary_monitors)
    /\ LET d == secondary_monitors[idx]
       IN  IF d \in DOMAIN monitor_settings
           THEN \E rc \in OsResults(d, RestoreDevmode(monitor_settings[d])) :
                   /\ OsApply(d, RestoreDevmode(monitor_settings[d]), rc)
                   /\ lastCall' =
                       RestoreCallRecord(d, RestoreDevmode(monitor_settings[d]), rc, "worker")
                   /\ NoteRestore(d, rc)
                   /\ passCalls' = [passCalls EXCEPT ![d] = @ + 1]
                   /\ Emit(<<Event("attempt", d),
                             Event(IF Succeeded(rc) THEN "restored" ELSE "failed", d)>>)
                   /\ IF Succeeded(rc)
                      THEN idx' = NextIndex(idx, rc) /\ pc' = pc
                      ELSE idx' = idx /\ pc' = "restore_retry"
           ELSE /\ idx' = idx + 1
                /\ pc' = pc
                /\ lastCall' = NoCall
                /\ UNCHANGED <<osVars, disableIssued, pendingOff, passCalls, status_log>>
    /\ lastWrite' = {}
    /\ UNCHANGED <<variant, targetEverSet, envEvents, monitor_settings, target_exe_path, running,
                   flagVars, process_is_running, pollVars, secondary_monitors, stopVars,
                   prevSample, lastPass, cyclePass, enumFailed, stopSecondaries, stopCalls>>

\* time.sleep(0.5); if restore_monitor(...): print("Retry successful")
ConsoleRestoreRetry ==
    /\ variant = "console"
    /\ pc = "restore_retry"
    /\ LET d == secondary_monitors[idx]
       IN  \E rc \in OsResults(d, RestoreDevmode(monitor_settings[d])) :
              /\ OsApply(d, RestoreDevmode(monitor_settings[d]), rc)
              /\ lastCall' =
                       RestoreCallRecord(d, RestoreDevmode(monitor_settings[d]), rc, "worker")
              /\ NoteRestore(d, rc)
              /\ passCalls' = [passCalls EXCEPT ![d] = @ + 1]
              /\ Emit(IF Succeeded(rc) THEN <<Event("restored", d)>> ELSE <<>>)
              /\ idx' = NextIndex(idx, rc)
    /\ pc' = "restoring"
    /\ lastWrite' = {}
    /\ UNCHANGED <<variant, targetEverSet, envEvents, monitor_settings, target_exe_path, running,
                   flagVars, process_is_running, pollVars, secondary_monitors, stopVars,
                   prevSample, lastPass, cyclePass, enumFailed, stopSecondaries, stopCalls>>

\* The positions inside main()'s try block.
TryPcs == {"loop", "sampled", "disabling", "disable_retry", "restoring",
           "restore_retry", "sleep"}

\* except KeyboardInterrupt: print("Exiting..."); if monitors_disabled:
KeyboardInterrupt ==
    /\ variant = "console"
    /\ pc \in TryPcs
    /\ IF ShutdownRestores
       THEN pc' = "handler" /\ idx' = 1 /\ Emit(<<Event("exiting", 0)>>)
       ELSE pc' = "done" /\ idx' = idx /\ Emit(<<Event("exiting", 0), Event("goodbye", 0)>>)
    /\ stopSecondaries' = IF SessionState = "Disabled" THEN DisabledSecondaries ELSE {}
    /\ NoCallStep
    /\ UNCHANGED <<variant, targetEverSet, osVars, envEvents, monitor_settings, target_exe_path,
                   running, flagVars, process_is_running, pollVars, secondary_monitors,
                   stopVars, prevSample, lastPass, cyclePass, enumFailed, passCalls, disableIssued,
                   pendingOff, stopCalls>>

\* One iteration of the handler's restore loop; the result of the call is not read.
HandlerRestore ==
    /\ pc = "handler"
    /\ idx <= Len(secondary_monitors)
    /\ LET d == secondary_monitors[idx]
       IN  IF d \in DOMAIN monitor_settings
           THEN \E rc \in OsResults(d, RestoreDevmode(monitor_settings[d])) :
                   /\ OsApply(d, RestoreDevmode(monitor_settings[d]), rc)
                   /\ lastCall' =
                       RestoreCallRecord(d, RestoreDevmode(monitor_settings[d]), rc, "shutdown")
                   /\ NoteRestore(d, rc)
                   /\ stopCalls' = stopCalls \cup {d}
                   /\ Emit(<<Event("restored", d)>>)
           ELSE /\ lastCall' = NoCall
                /\ UNCHANGED <<osVars, disableIssued, pendingOff, stopCalls, status_log>>
    /\ idx' = idx + 1
    /\ lastWrite' = {}
    /\ UNCHANGED <<variant, targetEverSet, envEvents, monitor_settings, target_exe_path, running,
                   flagVars, pc, process_is_running, pollVars, secondary_monitors, stopVars,
                   prevSample, lastPass, cyclePass, enumFailed, passCalls, stopSecondaries>>

\* print("Goodbye!"): main() returns.
HandlerEnd ==
    /\ pc = "handler"
    /\ idx > Len(secondary_monitors)
    /\ pc' = "done"
    /\ Emit(<<Event("goodbye", 0)>>)
    /\ NoCallStep
    /\ UNCHANGED <<variant, targetEverSet, osVars, envEvents, monitor_settings, target_exe_path,
                   running, flagVars, process_is_running, pollVars, secondary_monitors, idx,
                   stopVars, prevSample, lastPass, cyclePass, enumFailed, passCalls, disableIssued,
                   pendingOff, stopSecondaries, stopCalls>>

-----------------------------------------------------------------------------
(* The specification *)

Next ==
    \/ \E d \in Displays, m \in Modes : OSAttach(d, m)
    \/ \E d \in Displays : OSDetach(d)
    \/ \E d \in Displays : OSSetPrimary(d)
    \/ TrayStartup
    \/ TrayPoll
    \/ \E exe \in ProcPaths : TrayCompare(exe)
    \/ TrayNoMatch
    \/ TrayDisableBegin
    \/ TrayDisableCall
    \/ DisableEnd
    \/ TrayRestoreBegin
    \/ TrayRestoreCall
    \/ RestoreEnd
    \/ NoEdge
    \/ Sleep
    \/ \E path \in TargetPaths : SetTargetExe(path)
    \/ StopRequest
    \/ StopEnum
    \/ StopRestore
    \/ StopReturn
    \/ StopJoin
    \/ ConsoleSave
    \/ ConsoleEnum
    \/ ConsolePoll
    \/ ConsoleDisableBegin
    \/ ConsoleDisableCall
    \/ ConsoleDisableRetry
    \/ ConsoleRestoreBegin
    \/ ConsoleRestoreCall
    \/ ConsoleRestoreRetry
    \/ KeyboardInterrupt
    \/ HandlerRestore
    \/ HandlerEnd

Spec == Init /\ [][Next]_vars

\* The steps of the polling worker (console: of the main thread, its
\* KeyboardInterrupt handler included), which the OS keeps scheduling.
WorkerNext ==
    \/ TrayStartup
    \/ TrayPoll
    \/ \E exe \in ProcPaths : TrayCompare(exe)
    \/ TrayNoMatch
    \/ TrayDisableBegin
    \/ TrayDisableCall
    \/ DisableEnd
    \/ TrayRestoreBegin
    \/ TrayRestoreCall
    \/ RestoreEnd
    \/ NoEdge
    \/ Sleep
    \/ ConsoleSave
    \/ ConsoleEnum
    \/ ConsolePoll
    \/ ConsoleDisableBegin
    \/ ConsoleDisableCall
    \/ ConsoleDisableRetry
    \/ ConsoleRestoreBegin
    \/ ConsoleRestoreCall
    \/ ConsoleRestoreRetry
    \/ HandlerRestore
    \/ HandlerEnd

\* The steps of exit_app on the GUI thread once stop() has been entered.
StopNext == StopEnum \/ StopRestore \/ StopReturn \/ StopJoin

\* The steps of the program and of its user, on a desktop that nothing else
\* reconfigures.
ProgramNext ==
    \/ WorkerNext
    \/ StopNext
    \/ \E path \in TargetPaths : SetTargetExe(path)
    \/ StopRequest
    \/ KeyboardInterrupt

\* The program under a scheduler that keeps running both threads: the worker
\* and a started exit_app always take their next step. The settings dialog,
\* the exit request and Ctrl+C may or may not happen.
FairSpec == Init /\ [][ProgramNext]_vars /\ WF_vars(WorkerNext) /\ WF_vars(StopNext)

\* The shutdown has run to its end: the worker has returned and, in the tray
\* variant, exit_app's wait() has returned.
Terminated == pc = "done" /\ (variant = "tray" => stopPc = "exited")

TypeOK ==
    /\ variant \in {"tray", "console"}
    /\ attached \in [Displays -> BOOLEAN]
    /\ primary \in Displays
    /\ \A d \in Displays : attached[d] <=> osmode[d] \in Modes
    /\ attached[primary]
    /\ DOMAIN monitor_settings \subseteq Displays
    /\ target_exe_path \in TargetPaths \cup {LolPath}
    /\ idx \in 1..(NDisplays + 1)
    /\ stopIdx \in 1..(NDisplays + 1)
    /\ \A d \in Displays : passCalls[d] \in 0..2
    /\ processes \subseteq ProcPaths
    /\ pi \in 0..MaxProcs
    /\ targetsRead \subseteq TargetPaths

-----------------------------------------------------------------------------
(* Properties *)

PassDone == pc = "sleep" /\ cyclePass # "none"

\* C1: every display on which disable has been called and that has not been
\* successfully restored since has an entry in the snapshot store (disable is
\* never issued for a display without a snapshot).
C1_DisabledHaveSnapshot == disableIssued \subseteq DOMAIN monitor_settings

\* C2: at the end of every polling cycle, the cycle ran a disable pass and entered
\* Disabled if and only if its sample is true and the previous cycle's sample was
\* false (the first cycle's previous sample being false).
C2_DisablePassIffRisingEdge ==
    pc = "sleep" =>
        ((cyclePass = "disable" /\ monitors_disabled)
            <=> (process_is_running /\ ~prevSample))

\* A cycle that sampled true after a false sample, ran its disable pass and
\* entered Disabled.
C2_Witness ==
    /\ pc = "sleep"
    /\ process_is_running /\ ~prevSample
    /\ cyclePass = "disable"
    /\ monitors_disabled

\* C3: when a restore pass has completed, every display with a snapshot entry
\* that the program switched off has received a restore call since, and the
\* state is Idle.
C3_RestorePassRestoresDisabled ==
    (pc = "sleep" /\ cyclePass = "restore") =>
        /\ pendingOff \cap DOMAIN monitor_settings = {}
        /\ SessionState = "Idle"

\* C4: when a shutdown that was requested in state Disabled has completed, the
\* shutdown path has called restore on every secondary display, in particular on
\* every secondary display that a disable pass had called disable on.
C4_ShutdownRestoresAll == Terminated => stopSecondaries \subseteq stopCalls

\* C5: the program never terminates with a display that it switched off and for
\* which no restore call was issued afterwards.
C5_NoDisplayLeftOff == Terminated => pendingOff = {}

\* The worker is inside a pass: it has made a mode-change call of the pass and
\* has another one to make.
MidPass ==
    /\ InPass
    /\ \E d \in Displays : passCalls[d] > 0
    /\ \/ pc \in {"disable_retry", "restore_retry"}
       \/ \E i \in idx..Len(secondary_monitors) :
             pc = "disabling" \/ secondary_monitors[i] \in DOMAIN monitor_settings

\* C6: the shutdown path issues no mode-change call between the first and the
\* last mode-change call of a pass the worker is executing.
C6_ShutdownCallsNotInsidePass ==
    lastCall.op # "none" => (lastCall.by = "shutdown" => ~MidPass)

\* The outcome events (success or failure) of display d in this cycle's log.
IsOutcome(e) == e.cat \in {"disabled", "restored", "failed"}

OutcomesOf(d) ==
    LET outcomes == SelectSeq(status_log, IsOutcome)
        n == Len(outcomes)
        F[i \in 0..n] ==
            IF i = 0 THEN <<>>
            ELSE IF outcomes[i].d = d THEN Append(F[i - 1], outcomes[i].cat)
            ELSE F[i - 1]
    IN  F[n]

\* C7: in a completed pass a display whose first call failed has received
\* exactly two calls and a display whose first call succeeded exactly one, and
\* the events of a display are one success, one failure, or one failure
\* followed by one success.
C7_RetryExactlyOnce ==
    PassDone =>
        \A d \in Displays :
            LET o == OutcomesOf(d)
                ok == IF cyclePass = "disable" THEN "disabled" ELSE "restored"
            IN  /\ passCalls[d] <= 2
                /\ (passCalls[d] > 0) => o \in {<<ok>>, <<"failed">>, <<"failed", ok>>}
                /\ (passCalls[d] > 0 /\ o[1] = "failed") => passCalls[d] = 2
                /\ (passCalls[d] > 0 /\ o[1] = ok) => passCalls[d] = 1

\* C8: when a pass has completed, every monitor of its list (in a restore pass:
\* every one with a snapshot entry) has received a call, whatever the earlier
\* calls returned, and the state is Disabled after a disable pass and Idle after
\* a restore pass.
C8_PassCoversAllAndTransitions ==
    PassDone =>
        /\ \A i \in DOMAIN secondary_monitors :
              (cyclePass = "disable" \/ secondary_monitors[i] \in DOMAIN monitor_settings)
                  => passCalls[secondary_monitors[i]] >= 1
        /\ cyclePass = "disable" => SessionState = "Disabled"
        /\ cyclePass = "restore" => SessionState = "Idle"

\* A completed pass over two monitors in which every call on the first failed
\* and the second was still called.
C8_Witness ==
    /\ PassDone
    /\ Len(secondary_monitors) >= 2
    /\ passCalls[secondary_monitors[1]] >= 1
    /\ OutcomesOf(secondary_monitors[1]) = <<"failed">>
    /\ passCalls[secondary_monitors[2]] >= 1

\* C9: disable is never called on the display that is the primary display at
\* the time of the call.
C9_NeverDisablePrimary == lastCall.op = "disable" => lastCall.d # primary

\* C10: no step writes the snapshot entry of a display on which disable has been
\* called and that has not been successfully restored since, and no stored
\* entry holds the switched-off mode.
C10_NoWriteWhileDisabled ==
    /\ lastWrite \cap disableIssued = {}
    /\ \A d \in DOMAIN monitor_settings : monitor_settings[d] \in Modes

\* A display that is switched off while the store still holds the mode it had
\* before.
C10_Witness ==
    \E d \in pendingOff :
        /\ d \in DOMAIN monitor_settings
        /\ ~attached[d]
        /\ osmode[d] = DisableDevmode
        /\ monitor_settings[d] \in Modes

\* C11: every restore call passes the stored mode of its display unmodified, a
\* successful restore leaves the display in exactly the stored mode, and a
\* capture stores exactly the mode the display has, so that capture followed by
\* restore gives back the captured mode in every field.
C11_RestorePassesStoredMode ==
    /\ lastCall.op = "restore" =>
          /\ lastCall.d \in DOMAIN monitor_settings
          /\ lastCall.devmode = monitor_settings[lastCall.d]
          /\ Succeeded(lastCall.rc) => osmode[lastCall.d] = monitor_settings[lastCall.d]
    /\ \A d \in lastWrite : monitor_settings[d] = osmode[d]

\* A successful restore call on a display that is on the desktop with the mode
\* the store holds for it.
C11_Witness ==
    /\ lastCall.op = "restore"
    /\ Succeeded(lastCall.rc)
    /\ attached[lastCall.d]
    /\ osmode[lastCall.d] = monitor_settings[lastCall.d]
    /\ monitor_settings[lastCall.d] \in Modes

\* C12: as long as no target path has ever been configured (tray variant),
\* every sample is false whatever processes run, the state is Idle, no pass is
\* run and no disable or restore call is made.
C12_UnsetTargetStaysIdle ==
    (variant = "tray" /\ ~targetEverSet) =>
        /\ ~process_is_running
        /\ SessionState = "Idle"
        /\ cyclePass = "none"
        /\ lastCall.op = "none"
        /\ disableIssued = {}

\* A polling cycle has completed with the target path still unset.
C12_Witness ==
    /\ variant = "tray"
    /\ ~targetEverSet
    /\ target_exe_path = <<>>
    /\ pc = "sleep"
    /\ ~process_is_running
    /\ ~monitors_disabled

\* C13: all the reads of target_exe_path that one is_target_running call makes
\* (the guard and every comparison) return one and the same value.
C13_SampleReadsOneTarget == Cardinality(targetsRead) <= 1

\* C14: when a restore pass has completed, every monitor of its list that has
\* no snapshot entry has received no call in the pass and a status event of the
\* cycle names it.
C14_MissingSnapshotReported ==
    (PassDone /\ cyclePass = "restore") =>
        \A i \in DOMAIN secondary_monitors :
            LET d == secondary_monitors[i]
            IN  d \notin DOMAIN monitor_settings =>
                    /\ passCalls[d] = 0
                    /\ \E j \in DOMAIN status_log : status_log[j].d = d

\* C15: a polling cycle whose enumeration returned no monitor at all takes no
\* transition and does not advance the previous-sample flag: at its end the
\* flags are what they were when the cycle began.
C15_FailedEnumerationSkipsCycle ==
    (pc = "sleep" /\ enumFailed) =>
        /\ process_was_running = prevSample
        /\ monitors_disabled = prevSample

\* C16: in a completed pass every mode-change call has its outcome event, a
\* disable pass's log starts with the detected event and ends with the event of
\* the Disabled state (a restore pass's: closed, then Idle), and every restore
\* call of the shutdown path is followed by an event that names its display.
C16_EveryOutcomeEmitsEvent ==
    /\ PassDone =>
          /\ \A d \in Displays : Len(OutcomesOf(d)) = passCalls[d]
          /\ Len(status_log) >= 2
          /\ status_log[1].cat = (IF cyclePass = "disable" THEN "detected" ELSE "closed")
          /\ status_log[Len(status_log)].cat =
                (IF cyclePass = "disable" THEN "active" ELSE "idle")
          /\ \A j \in 2..(Len(status_log) - 1) : status_log[j].d \in Displays
    /\ (lastCall.op = "restore" /\ lastCall.by = "shutdown") =>
          /\ status_log # <<>>
          /\ status_log[Len(status_log)].d = lastCall.d

\* C17: a completed pass whose list of secondary monitors is empty has made no
\* disable or restore call, and the state is Disabled after a disable pass and
\* Idle after a restore pass.
C17_NoSecondaryStillTransitions ==
    (PassDone /\ secondary_monitors = <<>>) =>
        /\ \A d \in Displays : passCalls[d] = 0
        /\ cyclePass = "disable" => SessionState = "Disabled"
        /\ cyclePass = "restore" => SessionState = "Idle"

\* A rising edge with no secondary monitor: the disable pass is over, no call
\* was made and the state is Disabled.
C17_Witness ==
    /\ PassDone
    /\ cyclePass = "disable"
    /\ secondary_monitors = <<>>
    /\ ~enumFailed
    /\ \A d \in Displays : passCalls[d] = 0
    /\ monitors_disabled

\* C18: when the shutdown has completed the session state is Idle, whatever it
\* was when the shutdown was requested.
C18_ShutdownEndsIdle == Terminated => SessionState = "Idle"

\* C19: a sample that read one nonempty target path is true if and only if
\* some process the iteration saw has an 'exe' value that equals the target
\* case-insensitively; processes without a readable 'exe' do not count.
C19_SampleIffSomeProcessMatches ==
    (variant = "tray" /\ pc = "sampled") =>
        \A t \in TargetPaths \ {<<>>} :
            targetsRead = {t} =>
                (process_is_running <=>
                    \E exe \in processes : exe # <<>> /\ Lower(exe) = Lower(t))

\* A true sample: the iteration passed over a process without 'exe' and then
\* met a process whose path differs from the target in case only.
C19_Witness ==
    /\ variant = "tray"
    /\ pc = "sampled"
    /\ process_is_running
    /\ targetsRead = {<<"A">>}
    /\ processes = {<<>>, <<"a">>}

\* C20: whatever mode queries fail, get_all_monitors lists, in device-index
\* order, exactly the devices that are attached to the desktop and whose mode
\* query succeeds (a failed query does not end the enumeration), each with its
\* current mode and with the primary flag the OS reports.
C20_EnumerationExact ==
    \A q \in QueryFailures :
        LET m == get_all_monitors(q)
        IN  /\ Names(m) = {d \in Displays : attached[d] /\ d \notin q}
            /\ \A i, j \in DOMAIN m : i < j => m[i].index < m[j].index
            /\ \A i \in DOMAIN m :
                  /\ m[i].name = m[i].index
                  /\ m[i].settings = osmode[m[i].name]
                  /\ m[i].is_primary = (m[i].name = primary)

\* A disable pass whose enumeration lost device 2 to a failed mode query and
\* still listed device 3.
C20_Witness ==
    /\ variant = "tray"
    /\ pc = "disabling"
    /\ idx = 1
    /\ envEvents = 0
    /\ disableIssued = {}
    /\ stopCalls = {}
    /\ primary = 1
    /\ attached[2] /\ attached[3]
    /\ secondary_monitors = <<3>>

\* C21: every mode-change call is made with the update-registry change flag
\* set in dwflags (flags that say "update registry, no reset"), a disable call
\* requests width 0 and height 0 with the width, height and position fields
\* marked, and the call's result is one of the OS's codes.
C21_CallsUseUpdateRegistryFlags ==
    lastCall.op # "none" =>
        /\ (lastCall.flags \div CDS_UPDATEREGISTRY) % 2 = 1
        /\ lastCall.rc \in OsResultCodes
        /\ lastCall.op = "disable" =>
              /\ lastCall.devmode.dmPelsWidth = 0
              /\ lastCall.devmode.dmPelsHeight = 0
              /\ lastCall.devmode.dmFields = DM_PELSWIDTH + DM_PELSHEIGHT + DM_POSITION

\* C22: the passes of the polling loop alternate, starting with a disable
\* pass: a disable pass follows no pass or a restore pass, and a restore pass
\* follows a disable pass.
C22_PassesAlternate ==
    /\ cyclePass = "disable" => lastPass \in {"none", "restore"}
    /\ cyclePass = "restore" => lastPass = "disable"

\* A second disable pass has completed: the pass before it was a restore pass.
C22_Witness ==
    /\ PassDone
    /\ cyclePass = "disable"
    /\ lastPass = "restore"
    /\ monitors_disabled

\* C24: once stop() has cleared the running flag the worker starts no further
\* polling iteration (from the loop test it only returns), it terminates, and
\* the wait of exit_app returns.
C24_WorkerTerminatesAfterStop ==
    /\ [][(variant = "tray" /\ ~running /\ pc = "loop") => pc' \in {"loop", "done"}]_vars
    /\ (variant = "tray" /\ ~running) ~> (pc = "done")
    /\ (stopPc # "idle") ~> (stopPc = "exited")

\* The exit was requested after a disable pass; the worker has returned and
\* exit_app's wait with it.
C24_Witness ==
    /\ variant = "tray"
    /\ ~running
    /\ pc = "done"
    /\ stopPc = "exited"
    /\ lastPass = "disable"

\* No sample finds the target process.
TargetAbsent == pc = "sampled" => ~process_is_running

\* No exit has been requested: exit_app has not been entered, no Ctrl+C.
NoStopRequest == stopPc = "idle" /\ pc \notin {"handler", "done"}

\* C23: from a state Disabled after which every sample finds the target absent
\* and no stop is requested, a restore pass eventually runs and the state
\* eventually is Idle for good.
C23_AbsentTargetLeadsToIdle ==
    []((SessionState = "Disabled" /\ [](TargetAbsent /\ NoStopRequest))
          => (<>(cyclePass = "restore") /\ <>[](SessionState = "Idle")))

\* A restore pass has run to its end with no stop requested: the state is Idle
\* after it was Disabled.
C23_Witness ==
    /\ PassDone
    /\ cyclePass = "restore"
    /\ lastPass = "disable"
    /\ ~process_is_running
    /\ SessionState = "Idle"
    /\ NoStopRequest

\* A step of the shutdown path: of exit_app / stop() on the GUI thread, or of
\* the console's KeyboardInterrupt handler.
ShutdownStep ==
    \/ <<stopPc, stopList, stopIdx>>' # <<stopPc, stopList, stopIdx>>
    \/ variant = "console" /\ pc' \in {"handler", "done"}

\* C25: a shutdown requested while the disabled flag is false goes straight to
\* its end and makes no disable or restore call, and no step of the shutdown
\* path changes the snapshot store, the target path, the previous-sample flag
\* or the disabled flag.
C25_ShutdownFrame ==
    [][ShutdownStep =>
          /\ monitor_settings' = monitor_settings
          /\ target_exe_path' = target_exe_path
          /\ process_was_running' = process_was_running
          /\ monitors_disabled' = monitors_disabled
          /\ lastCall'.op \in {"none", "restore"}
          /\ (stopPc = "joining") => (lastCall'.op = "none")
          /\ (stopPc = "idle" /\ pc \notin {"handler", "done"} /\ ~monitors_disabled) =>
                (/\ lastCall'.op = "none"
                 /\ IF variant = "tray" THEN stopPc' = "joining" ELSE pc' = "done")
      ]_vars

\* A shutdown that was requested with the disabled flag false has run to its
\* end without a call.
C25_Witness ==
    /\ Terminated
    /\ ~monitors_disabled
    /\ stopCalls = {}
    /\ lastPass = "restore"

====
